---- MODULE Spec2Model ----
(***************************************************************************)
(* Model of src/index.js: the approve -> resolve pool -> build params ->   *)
(* swap -> approve -> deposit pipeline run by main(swapAmount).            *)
(*                                                                         *)
(* The program's state is the position of the one async call chain (pc),   *)
(* its local values, the calls it has issued to the outside world, and     *)
(* the part of the chain those calls act on: the transactions sent by the  *)
(* signer with their mining status, and the allowances that mined          *)
(* approvals grant.  The node, the factory, the pool and the contracts     *)
(* are the environment: every read and every submission either returns or  *)
(* throws, and every pending transaction is mined as confirmed or          *)
(* reverted, in nonce order.                                               *)
(***************************************************************************)
EXTENDS Integers, Sequences, FiniteSets

\* ------------------------------------------------------------------ bounds
\* Entered amounts given as strings have at most MaxLen characters.
MaxLen == 3
\* Entered amounts given as numbers are the integers -MaxNum .. MaxNum.
MaxNum == 2

\* --------------------------------------------------------------- constants
USDC == [address |-> "USDC", decimals |-> 6, symbol |-> "USDC"]
LINK == [address |-> "LINK", decimals |-> 18, symbol |-> "LINK"]
POOL_FACTORY_CONTRACT_ADDRESS == "FACTORY"
SWAP_ROUTER_CONTRACT_ADDRESS == "ROUTER"
AAVE_LENDING_POOL_ADDRESS == "AAVE"
\* signer.address: the wallet built from PRIVATE_KEY
signer == [address |-> "SIGNER"]
\* the fee tier getPoolInfo asks the factory for
FEE_TIER == 3000

\* what factoryContract.getPool can resolve to: a falsy value, the zero
\* address (a non-empty string, hence truthy), or a deployed pool
Null == "null"
ZeroAddress == "0x0000000000000000000000000000000000000000"
PoolAddress == "POOL"
NoValue == "undefined"
\* a binding or result slot before it receives its value, and once it has
Unset == <<>>
Value(v) == <<v>>

\* ------------------------------------------------------------ amount codec
Chars == {"0", "1", ".", "-", "e"}
DigitChars == {"0", "1", "2", "3", "4", "5", "6", "7", "8", "9"}

DigitVal(c) ==
  CASE c = "0" -> 0 [] c = "1" -> 1 [] c = "2" -> 2 [] c = "3" -> 3
    [] c = "4" -> 4 [] c = "5" -> 5 [] c = "6" -> 6 [] c = "7" -> 7
    [] c = "8" -> 8 [] c = "9" -> 9

DigitChar(d) ==
  CASE d = 0 -> "0" [] d = 1 -> "1" [] d = 2 -> "2" [] d = 3 -> "3"
    [] d = 4 -> "4" [] d = 5 -> "5" [] d = 6 -> "6" [] d = 7 -> "7"
    [] d = 8 -> "8" [] d = 9 -> "9"

RECURSIVE Pow10(_)
Pow10(n) == IF n = 0 THEN 1 ELSE 10 * Pow10(n - 1)

RECURSIVE DigitsValue(_)
\* BigInt of a string of decimal digits ("" reads as 0)
DigitsValue(s) ==
  IF Len(s) = 0 THEN 0
  ELSE 10 * DigitsValue(SubSeq(s, 1, Len(s) - 1)) + DigitVal(s[Len(s)])

RECURSIVE NatToString(_)
NatToString(n) ==
  IF n < 10 THEN <<DigitChar(n)>>
  ELSE NatToString(n \div 10) \o <<DigitChar(n % 10)>>

\* Number.prototype.toString for an integer, String.prototype.toString for a
\* string: the text that inputAmount.toString() / amount.toString() yields
toString(x) ==
  IF x.type = "number"
  THEN IF x.value < 0 THEN <<"-">> \o NatToString(0 - x.value)
       ELSE NatToString(x.value)
  ELSE x.chars

AllDigits(s) == \A i \in 1..Len(s) : s[i] \in DigitChars

RECURSIVE PadZeros(_, _)
PadZeros(s, n) == IF Len(s) >= n THEN s ELSE PadZeros(s \o <<"0">>, n)

\* ethers.parseUnits(text, decimals): the text must match
\* (-?)([0-9]*)\.?([0-9]*) with at least one digit; the fraction is padded
\* with zeros to `decimals` digits and may exceed them only by zeros; the
\* result is the signed integer sign+whole+fraction.  [ok |-> FALSE] is a throw.
parseUnits(text, decimals) ==
  LET neg == Len(text) > 0 /\ text[1] = "-"
      body == IF neg THEN Tail(text) ELSE text
      dots == {i \in 1..Len(body) : body[i] = "."}
      dot == IF dots = {} THEN Len(body) + 1
             ELSE CHOOSE i \in dots : \A j \in dots : i <= j
      whole == SubSeq(body, 1, dot - 1)
      frac == SubSeq(body, dot + 1, Len(body))
      padded == PadZeros(frac, decimals)
      kept == SubSeq(padded, 1, decimals)
      excess == SubSeq(padded, decimals + 1, Len(padded))
      abs == DigitsValue(whole) * Pow10(decimals) + DigitsValue(kept)
  IN IF /\ AllDigits(whole)
        /\ AllDigits(frac)
        /\ Len(whole) + Len(frac) > 0
        /\ \A i \in 1..Len(excess) : excess[i] = "0"
     THEN [ok |-> TRUE, value |-> IF neg THEN 0 - abs ELSE abs]
     ELSE [ok |-> FALSE, value |-> 0]

\* ABI encoding of a uint256 argument throws for a negative value (the
\* upper limit 2^256 is beyond every amount the bounds produce)
EncodableUint(v) == v >= 0

\* the amounts main can be called with
RECURSIVE StringsUpTo(_)
StringsUpTo(n) ==
  IF n = 0 THEN {<<>>}
  ELSE LET shorter == StringsUpTo(n - 1)
       IN shorter \cup {s \o <<c>> : s \in shorter, c \in Chars}

SwapAmounts ==
  {[type |-> "number", value |-> n] : n \in (0 - MaxNum)..MaxNum}
    \cup {[type |-> "string", chars |-> s] : s \in StringsUpTo(MaxLen)}

RECURSIVE TrimLeadingZeros(_)
TrimLeadingZeros(s) ==
  IF Len(s) >= 2 /\ s[1] = "0" /\ s[2] # "." THEN TrimLeadingZeros(Tail(s)) ELSE s

RECURSIVE TrimTrailingZeros(_)
TrimTrailingZeros(s) ==
  IF Len(s) >= 2 /\ s[Len(s)] = "0" /\ s[Len(s) - 1] # "."
  THEN TrimTrailingZeros(SubSeq(s, 1, Len(s) - 1))
  ELSE s

RECURSIVE PadLeft(_, _)
PadLeft(s, n) == IF Len(s) > n THEN s ELSE PadLeft(<<"0">> \o s, n)

\* ethers.formatUnits(value, decimals): the digits of |value| left-padded
\* with zeros beyond `decimals` digits, a point inserted `decimals` digits
\* from the right, surplus zeros trimmed on both sides (one digit is kept on
\* each side of the point), the sign put back
formatUnits(value, decimals) ==
  LET neg == value < 0
      abs == IF neg THEN 0 - value ELSE value
      str == PadLeft(NatToString(abs), decimals)
      index == Len(str) - decimals
      pointed == SubSeq(str, 1, index) \o <<".">> \o SubSeq(str, index + 1, Len(str))
      trimmed == TrimTrailingZeros(TrimLeadingZeros(pointed))
  IN IF decimals = 0
     THEN (IF neg THEN <<"-">> ELSE <<>>) \o NatToString(abs)
     ELSE (IF neg THEN <<"-">> ELSE <<>>) \o trimmed

\* ------------------------------------------------------------------- state
VARIABLES
  swapAmount,   \* the argument of main
  pool,         \* chain: token0 and token1 of the pool contract the factory knows
  pc,           \* where the call chain main -> ... is suspended
  amountIn,     \* main: const amountIn
  poolAddress,  \* getPoolInfo: const poolAddress, which poolContract is bound to
  poolInfo,     \* getPoolInfo: results of token0(), token1(), fee() so far
  outstanding,  \* reads issued by Promise.all that have not settled
  params,       \* main: const params
  amountOut,    \* main: const amountOut
  calls,        \* every read and every submission issued, in order
  submits,      \* every submission attempt by the signer, in order
  txs,          \* the transactions the node accepted, with their status
  allowance,    \* chain: allowance the signer granted, per <<token, spender>>
  thrown,       \* the error being propagated, if any
  failedAt,     \* the pipeline step that raised the first error
  reports,      \* console.error output, in order
  suppliedLog,  \* the amount printed by "Successfully supplied ... LINK"
  mainPromise,  \* the promise main returned: pending, fulfilled or rejected
  rejection     \* the reason mainPromise rejected with

vars == <<swapAmount, pool, pc, amountIn, poolAddress, poolInfo, outstanding, params,
          amountOut, calls, submits, txs, allowance, thrown, failedAt, reports,
          suppliedLog, mainPromise, rejection>>

locals == <<amountIn, poolAddress, poolInfo, params, amountOut>>
chain == <<txs, allowance>>
errors == <<thrown, failedAt>>
outcome == <<suppliedLog, mainPromise, rejection>>

Tokens == {USDC.address, LINK.address}
Spenders == {SWAP_ROUTER_CONTRACT_ADDRESS, AAVE_LENDING_POOL_ADDRESS}
ProviderError == "provider error"

\* the pool holds the two tokens in either order
Pools == {p \in [token0 : Tokens, token1 : Tokens] : p.token0 # p.token1}

Init ==
  /\ swapAmount \in SwapAmounts
  /\ pool \in Pools
  /\ pc = "main"
  /\ amountIn = Unset
  /\ poolAddress = NoValue
  /\ poolInfo = [r \in {"token0", "token1", "fee"} |-> Unset]
  /\ outstanding = {}
  /\ params = Unset
  /\ amountOut = Unset
  /\ calls = <<>>
  /\ submits = <<>>
  /\ txs = <<>>
  /\ allowance = [k \in Tokens \X Spenders |-> 0]
  /\ thrown = NoValue
  /\ failedAt = "none"
  /\ reports = <<>>
  /\ suppliedLog = Unset
  /\ mainPromise = "pending"
  /\ rejection = NoValue

\* ----------------------------------------------------------------- helpers
\* `throw err` out of pipeline step `step`, landing in the enclosing handler
Throw(err, step, handler) ==
  /\ thrown' = err
  /\ failedAt' = IF failedAt = "none" THEN step ELSE failedAt
  /\ pc' = handler

\* signer.sendTransaction(tx) / a contract method sent through the signer:
\* one attempt; the node either accepts the transaction (it is then pending)
\* or the call throws
SendTransaction(tx, sent) ==
  /\ calls' = Append(calls, [kind |-> "send", to |-> tx.to, fn |-> tx.fn, args |-> tx.args])
  /\ submits' = Append(submits, [to |-> tx.to, fn |-> tx.fn, ok |-> sent])
  /\ txs' = IF sent
            THEN Append(txs, [to |-> tx.to, fn |-> tx.fn, args |-> tx.args,
                              from |-> signer.address, status |-> "pending"])
            ELSE txs

\* JavaScript truthiness of what getPool resolved to
Falsy(v) == v \in {Null, NoValue, ""}

Pending(i) == txs[i].status = "pending"

\* ----------------------------------------------------------------- actions
\* main, lines 160-165: convert the amount and enter approveToken.  The
\* conversion is outside the try block: its throw rejects main's promise.
Main ==
  /\ pc = "main"
  /\ LET r == parseUnits(toString(swapAmount), USDC.decimals)
     IN IF r.ok
        THEN /\ pc' = "approve_send"
             /\ amountIn' = Value(r.value)
             /\ UNCHANGED <<errors, mainPromise, rejection>>
        ELSE /\ Throw("invalid FixedNumber string value", "convert", "REJECTED")
             /\ mainPromise' = "rejected"
             /\ rejection' = "invalid FixedNumber string value"
             /\ UNCHANGED amountIn
  /\ UNCHANGED <<swapAmount, pool, poolAddress, poolInfo, outstanding, params, amountOut,
                 calls, submits, chain, reports, suppliedLog>>

\* approveToken converting the amount with no decimals instead of USDC.decimals
ApproveSendWrongDecimals(sent) ==
  /\ pc = "approve_send"
  /\ LET r == parseUnits(toString(swapAmount), 0)
         tx == [to |-> USDC.address, fn |-> "approve",
                args |-> <<SWAP_ROUTER_CONTRACT_ADDRESS, r.value>>]
     IN IF ~r.ok \/ ~EncodableUint(r.value)
        THEN /\ Throw("invalid value", "approveForSwap", "approve_catch")
             /\ UNCHANGED <<calls, submits, txs>>
        ELSE /\ SendTransaction(tx, sent)
             /\ IF sent
                THEN pc' = "approve_wait" /\ UNCHANGED errors
                ELSE Throw(ProviderError, "approveForSwap", "approve_catch")
  /\ UNCHANGED <<swapAmount, pool, locals, outstanding, allowance, reports, outcome>>

\* approveToken, lines 48-57: build approve(SWAP_ROUTER, approveAmount) on the
\* token and send it
ApproveSend(sent) ==
  /\ pc = "approve_send"
  /\ LET r == parseUnits(toString(swapAmount), USDC.decimals)
         tx == [to |-> USDC.address, fn |-> "approve",
                args |-> <<SWAP_ROUTER_CONTRACT_ADDRESS, r.value>>]
     IN IF ~r.ok \/ ~EncodableUint(r.value)
        THEN /\ Throw("invalid value", "approveForSwap", "approve_catch")
             /\ UNCHANGED <<calls, submits, txs>>
        ELSE /\ SendTransaction(tx, sent)
             /\ IF sent
                THEN pc' = "approve_wait" /\ UNCHANGED errors
                ELSE Throw(ProviderError, "approveForSwap", "approve_catch")
  /\ UNCHANGED <<swapAmount, pool, locals, outstanding, allowance, reports, outcome>>

\* approveToken going on without waiting for the approval to be mined
ApproveWaitNotAwaited(rpcOk) ==
  /\ pc = "approve_wait"
  /\ IF ~rpcOk
     THEN Throw(ProviderError, "approveForSwap", "approve_catch")
     ELSE pc' = "getPool" /\ UNCHANGED errors
  /\ UNCHANGED <<swapAmount, pool, locals, outstanding, calls, submits, chain, reports,
                 outcome>>

\* approveToken, lines 63-66: transactionResponse.wait() returns once the
\* transaction is mined with success, and throws if it reverted or if the
\* provider fails while waiting
ApproveWait(rpcOk) ==
  /\ pc = "approve_wait"
  /\ IF ~rpcOk
     THEN Throw(ProviderError, "approveForSwap", "approve_catch")
     ELSE /\ ~Pending(Len(txs))
          /\ IF txs[Len(txs)].status = "confirmed"
             THEN pc' = "getPool" /\ UNCHANGED errors
             ELSE Throw("transaction execution reverted", "approveForSwap", "approve_catch")
  /\ UNCHANGED <<swapAmount, pool, locals, outstanding, calls, submits, chain, reports, outcome>>

\* approveToken's handler trying the approval once more instead of throwing
ApproveCatchRetry ==
  /\ pc = "approve_catch"
  /\ reports' = Append(reports, [by |-> "approveToken", error |-> thrown])
  /\ IF Len(submits) < 2
     THEN pc' = "approve_send" /\ UNCHANGED thrown
     ELSE pc' = "main_catch" /\ thrown' = "Token approval failed"
  /\ UNCHANGED <<swapAmount, pool, locals, outstanding, calls, submits, chain, failedAt, outcome>>

\* approveToken, lines 67-70: log the error and throw a new one
ApproveCatch ==
  /\ pc = "approve_catch"
  /\ reports' = Append(reports, [by |-> "approveToken", error |-> thrown])
  /\ thrown' = "Token approval failed"
  /\ pc' = "main_catch"
  /\ UNCHANGED <<swapAmount, pool, locals, outstanding, calls, submits, chain, failedAt, outcome>>

\* what a read of the pool contract can settle with: the value the pool
\* holds, or a rejection ([ok |-> FALSE]).  No contract is deployed at the
\* zero address: a call to it returns no data, which the decoder rejects.
Throws == "throw"
ReadResults(address, fn) ==
  IF fn = "fee"
  THEN {[ok |-> FALSE, value |-> 0]}
         \cup (IF address = ZeroAddress THEN {} ELSE {[ok |-> TRUE, value |-> FEE_TIER]})
  ELSE {[ok |-> FALSE, value |-> NoValue]}
         \cup (IF address = ZeroAddress THEN {} ELSE {[ok |-> TRUE, value |-> pool[fn]]})

PoolRead(fn) == [kind |-> "read", to |-> poolAddress', fn |-> fn, args |-> <<>>]

\* getPoolInfo, lines 75-88: the factory read settles; a falsy address
\* throws, any other address is bound to a pool contract on which token0(),
\* token1() and fee() are called, all three before the first await
GetPool(result) ==
  /\ pc = "getPool"
  /\ LET getPool == [kind |-> "read", to |-> POOL_FACTORY_CONTRACT_ADDRESS, fn |-> "getPool",
                     args |-> <<USDC.address, LINK.address, FEE_TIER>>]
     IN IF result = Throws
        THEN /\ Throw(ProviderError, "resolvePool", "main_catch")
             /\ calls' = Append(calls, getPool)
             /\ UNCHANGED <<poolAddress, outstanding>>
        ELSE IF Falsy(result)
        THEN /\ Throw("Failed to get pool address", "resolvePool", "main_catch")
             /\ poolAddress' = result
             /\ calls' = Append(calls, getPool)
             /\ UNCHANGED outstanding
        ELSE /\ poolAddress' = result
             /\ calls' = calls \o <<getPool, PoolRead("token0"), PoolRead("token1"),
                                    PoolRead("fee")>>
             /\ outstanding' = {"token0", "token1", "fee"}
             /\ pc' = "pool_all"
             /\ UNCHANGED errors
  /\ UNCHANGED <<swapAmount, pool, amountIn, poolInfo, params, amountOut, submits, chain,
                 reports, outcome>>

\* getPoolInfo returning as soon as one read has fulfilled (a race instead
\* of Promise.all)
PoolReadSettlesFirstWins(fn, result) ==
  /\ fn \in outstanding
  /\ outstanding' = outstanding \ {fn}
  /\ IF pc # "pool_all"
     THEN UNCHANGED <<pc, poolInfo, errors>>
     ELSE IF ~result.ok
     THEN Throw(ProviderError, "resolvePool", "main_catch") /\ UNCHANGED poolInfo
     ELSE /\ pc' = "prepare"
          /\ poolInfo' = [poolInfo EXCEPT ![fn] = Value(result.value)]
          /\ UNCHANGED errors
  /\ UNCHANGED <<swapAmount, pool, amountIn, poolAddress, params, amountOut, calls, submits,
                 chain, reports, outcome>>

\* getPoolInfo, lines 84-89: one of the three reads settles.  Promise.all
\* rejects with the first rejection and fulfils once all three have
\* fulfilled; getPoolInfo then returns and main calls prepareSwapParams.  A
\* read that settles after the rejection is ignored.
PoolReadSettles(fn, result) ==
  /\ fn \in outstanding
  /\ outstanding' = outstanding \ {fn}
  /\ IF pc # "pool_all"
     THEN UNCHANGED <<pc, poolInfo, errors>>
     ELSE IF ~result.ok
     THEN Throw(ProviderError, "resolvePool", "main_catch") /\ UNCHANGED poolInfo
     ELSE /\ pc' = IF outstanding' = {} THEN "prepare" ELSE pc
          /\ poolInfo' = [poolInfo EXCEPT ![fn] = Value(result.value)]
          /\ UNCHANGED errors
  /\ UNCHANGED <<swapAmount, pool, amountIn, poolAddress, params, amountOut, calls, submits,
                 chain, reports, outcome>>

\* prepareSwapParams taking the tokens in the pool's order
PrepareSwapParamsInPoolOrder(feeResult) ==
  /\ pc = "prepare"
  /\ calls' = Append(calls, [kind |-> "read", to |-> poolAddress, fn |-> "fee", args |-> <<>>])
  /\ IF ~feeResult.ok
     THEN Throw(ProviderError, "buildSwapParams", "main_catch") /\ UNCHANGED params
     ELSE /\ pc' = "swap_send"
          /\ params' = Value([tokenIn |-> poolInfo.token0[1],
                        tokenOut |-> poolInfo.token1[1],
                        fee |-> feeResult.value,
                        recipient |-> signer.address,
                        amountIn |-> amountIn[1],
                        amountOutMinimum |-> 0,
                        sqrtPriceLimitX96 |-> 0])
          /\ UNCHANGED errors
  /\ UNCHANGED <<swapAmount, pool, amountIn, poolAddress, poolInfo, outstanding, amountOut,
                 submits, chain, reports, outcome>>

\* prepareSwapParams asking for at least the amount paid in
PrepareSwapParamsWithFloor(feeResult) ==
  /\ pc = "prepare"
  /\ calls' = Append(calls, [kind |-> "read", to |-> poolAddress, fn |-> "fee", args |-> <<>>])
  /\ IF ~feeResult.ok
     THEN Throw(ProviderError, "buildSwapParams", "main_catch") /\ UNCHANGED params
     ELSE /\ pc' = "swap_send"
          /\ params' = Value([tokenIn |-> USDC.address,
                        tokenOut |-> LINK.address,
                        fee |-> feeResult.value,
                        recipient |-> signer.address,
                        amountIn |-> amountIn[1],
                        amountOutMinimum |-> amountIn[1],
                        sqrtPriceLimitX96 |-> 0])
          /\ UNCHANGED errors
  /\ UNCHANGED <<swapAmount, pool, amountIn, poolAddress, poolInfo, outstanding, amountOut,
                 submits, chain, reports, outcome>>

\* prepareSwapParams, lines 93-103: read the pool's fee again and build the
\* parameters
PrepareSwapParams(feeResult) ==
  /\ pc = "prepare"
  /\ calls' = Append(calls, [kind |-> "read", to |-> poolAddress, fn |-> "fee", args |-> <<>>])
  /\ IF ~feeResult.ok
     THEN Throw(ProviderError, "buildSwapParams", "main_catch") /\ UNCHANGED params
     ELSE /\ pc' = "swap_send"
          /\ params' = Value([tokenIn |-> USDC.address,
                        tokenOut |-> LINK.address,
                        fee |-> feeResult.value,
                        recipient |-> signer.address,
                        amountIn |-> amountIn[1],
                        amountOutMinimum |-> 0,
                        sqrtPriceLimitX96 |-> 0])
          /\ UNCHANGED errors
  /\ UNCHANGED <<swapAmount, pool, amountIn, poolAddress, poolInfo, outstanding, amountOut,
                 submits, chain, reports, outcome>>

\* executeSwap, lines 106-114, and main, lines 176-177: build
\* exactInputSingle(params) on the router and send it; executeSwap returns as
\* soon as the node has accepted the transaction, and main goes on to
\* supplyToAave with amountOut = params.amountIn
ExecuteSwap(sent) ==
  /\ pc = "swap_send"
  /\ LET tx == [to |-> SWAP_ROUTER_CONTRACT_ADDRESS, fn |-> "exactInputSingle",
                args |-> <<params[1]>>]
     IN IF ~EncodableUint(params[1].amountIn)
        THEN /\ Throw("invalid value", "swap", "main_catch")
             /\ UNCHANGED <<calls, submits, txs, amountOut>>
        ELSE /\ SendTransaction(tx, sent)
             /\ IF sent
                THEN /\ pc' = "supply_approve_send"
                     /\ amountOut' = Value(params[1].amountIn)
                     /\ UNCHANGED errors
                ELSE /\ Throw(ProviderError, "swap", "main_catch")
                     /\ UNCHANGED amountOut
  /\ UNCHANGED <<swapAmount, pool, amountIn, poolAddress, poolInfo, outstanding, params,
                 allowance, reports, outcome>>

\* supplyToAave, lines 120-125: build approve(AAVE_LENDING_POOL, amount) on
\* the token and send it
SupplyApproveSend(sent) ==
  /\ pc = "supply_approve_send"
  /\ LET tx == [to |-> LINK.address, fn |-> "approve",
                args |-> <<AAVE_LENDING_POOL_ADDRESS, amountOut[1]>>]
     IN IF ~EncodableUint(amountOut[1])
        THEN /\ Throw("invalid value", "approveForSupply", "supply_catch")
             /\ UNCHANGED <<calls, submits, txs>>
        ELSE /\ SendTransaction(tx, sent)
             /\ IF sent
                THEN pc' = "supply_approve_wait" /\ UNCHANGED errors
                ELSE Throw(ProviderError, "approveForSupply", "supply_catch")
  /\ UNCHANGED <<swapAmount, pool, locals, outstanding, allowance, reports, outcome>>

\* supplyToAave returning after the approval, without the deposit
SupplyApproveWaitNoDeposit(rpcOk) ==
  /\ pc = "supply_approve_wait"
  /\ IF ~rpcOk
     THEN Throw(ProviderError, "approveForSupply", "supply_catch") /\ UNCHANGED mainPromise
     ELSE /\ ~Pending(Len(txs))
          /\ IF txs[Len(txs)].status = "confirmed"
             THEN pc' = "DONE" /\ mainPromise' = "fulfilled" /\ UNCHANGED errors
             ELSE /\ Throw("transaction execution reverted", "approveForSupply", "supply_catch")
                  /\ UNCHANGED mainPromise
  /\ UNCHANGED <<swapAmount, pool, locals, outstanding, calls, submits, chain, reports,
                 suppliedLog, rejection>>

\* supplyToAave, line 126: approvalResponse.wait()
SupplyApproveWait(rpcOk) ==
  /\ pc = "supply_approve_wait"
  /\ IF ~rpcOk
     THEN Throw(ProviderError, "approveForSupply", "supply_catch")
     ELSE /\ ~Pending(Len(txs))
          /\ IF txs[Len(txs)].status = "confirmed"
             THEN pc' = "supply_deposit" /\ UNCHANGED errors
             ELSE Throw("transaction execution reverted", "approveForSupply", "supply_catch")
  /\ UNCHANGED <<swapAmount, pool, locals, outstanding, calls, submits, chain, reports, outcome>>

\* supplyToAave depositing on behalf of the lending pool instead of the signer
SupplyDepositOnBehalfOfPool(sent) ==
  /\ pc = "supply_deposit"
  /\ LET tx == [to |-> AAVE_LENDING_POOL_ADDRESS, fn |-> "deposit",
                args |-> <<LINK.address, amountOut[1], AAVE_LENDING_POOL_ADDRESS, 0>>]
     IN IF ~EncodableUint(amountOut[1])
        THEN /\ Throw("invalid value", "deposit", "supply_catch")
             /\ UNCHANGED <<calls, submits, txs>>
        ELSE /\ SendTransaction(tx, sent)
             /\ IF sent
                THEN pc' = "supply_deposit_wait" /\ UNCHANGED errors
                ELSE Throw(ProviderError, "deposit", "supply_catch")
  /\ UNCHANGED <<swapAmount, pool, locals, outstanding, allowance, reports, outcome>>

\* supplyToAave, lines 129-139: deposit(token, amount, signer.address, 0) on
\* the lending pool, sent through the signer
SupplyDeposit(sent) ==
  /\ pc = "supply_deposit"
  /\ LET tx == [to |-> AAVE_LENDING_POOL_ADDRESS, fn |-> "deposit",
                args |-> <<LINK.address, amountOut[1], signer.address, 0>>]
     IN IF ~EncodableUint(amountOut[1])
        THEN /\ Throw("invalid value", "deposit", "supply_catch")
             /\ UNCHANGED <<calls, submits, txs>>
        ELSE /\ SendTransaction(tx, sent)
             /\ IF sent
                THEN pc' = "supply_deposit_wait" /\ UNCHANGED errors
                ELSE Throw(ProviderError, "deposit", "supply_catch")
  /\ UNCHANGED <<swapAmount, pool, locals, outstanding, allowance, reports, outcome>>

\* supplyToAave, lines 144-150, and the end of main: supplyTransaction.wait(),
\* the success log, and main's normal return
SupplyDepositWait(rpcOk) ==
  /\ pc = "supply_deposit_wait"
  /\ IF ~rpcOk
     THEN /\ Throw(ProviderError, "deposit", "supply_catch")
          /\ UNCHANGED <<suppliedLog, mainPromise>>
     ELSE /\ ~Pending(Len(txs))
          /\ IF txs[Len(txs)].status = "confirmed"
             THEN /\ pc' = "DONE"
                  /\ suppliedLog' = Value(formatUnits(amountOut[1], LINK.decimals))
                  /\ mainPromise' = "fulfilled"
                  /\ UNCHANGED errors
             ELSE /\ Throw("transaction execution reverted", "deposit", "supply_catch")
                  /\ UNCHANGED <<suppliedLog, mainPromise>>
  /\ UNCHANGED <<swapAmount, pool, locals, outstanding, calls, submits, chain, reports,
                 rejection>>

\* supplyToAave's handler logging the error without throwing a new one
SupplyCatchSwallow ==
  /\ pc = "supply_catch"
  /\ reports' = Append(reports, [by |-> "supplyToAave", error |-> thrown])
  /\ pc' = "DONE"
  /\ mainPromise' = "fulfilled"
  /\ UNCHANGED <<swapAmount, pool, locals, outstanding, calls, submits, chain, errors,
                 suppliedLog, rejection>>

\* supplyToAave, lines 151-154: log the error's message and throw a new one
SupplyCatch ==
  /\ pc = "supply_catch"
  /\ reports' = Append(reports, [by |-> "supplyToAave", error |-> thrown])
  /\ thrown' = "Aave supply failed"
  /\ pc' = "main_catch"
  /\ UNCHANGED <<swapAmount, pool, locals, outstanding, calls, submits, chain, failedAt, outcome>>

\* main's handler revoking the router's allowance before it returns
MainCatchRevoke ==
  /\ pc = "main_catch"
  /\ reports' = Append(reports, [by |-> "main", error |-> thrown])
  /\ SendTransaction([to |-> USDC.address, fn |-> "approve",
                      args |-> <<SWAP_ROUTER_CONTRACT_ADDRESS, 0>>], TRUE)
  /\ pc' = "FAILED"
  /\ mainPromise' = "fulfilled"
  /\ UNCHANGED <<swapAmount, pool, locals, outstanding, allowance, errors, suppliedLog, rejection>>

\* main's handler running the pipeline once more after the first failure
MainCatchRestart ==
  /\ pc = "main_catch"
  /\ reports' = Append(reports, [by |-> "main", error |-> thrown])
  /\ IF Len(reports) < 2
     THEN pc' = "approve_send" /\ UNCHANGED mainPromise
     ELSE pc' = "FAILED" /\ mainPromise' = "fulfilled"
  /\ UNCHANGED <<swapAmount, pool, locals, outstanding, calls, submits, chain, errors,
                 suppliedLog, rejection>>

\* main's handler logging the error and throwing it on to the caller
MainCatchRethrow ==
  /\ pc = "main_catch"
  /\ reports' = Append(reports, [by |-> "main", error |-> thrown])
  /\ pc' = "FAILED"
  /\ mainPromise' = "rejected"
  /\ rejection' = thrown
  /\ UNCHANGED <<swapAmount, pool, locals, outstanding, calls, submits, chain, errors,
                 suppliedLog>>

\* main, lines 178-181: log the error's message; main then returns normally
MainCatch ==
  /\ pc = "main_catch"
  /\ reports' = Append(reports, [by |-> "main", error |-> thrown])
  /\ pc' = "FAILED"
  /\ mainPromise' = "fulfilled"
  /\ UNCHANGED <<swapAmount, pool, locals, outstanding, calls, submits, chain, errors,
                 suppliedLog, rejection>>

\* the chain: the signer's oldest pending transaction is mined, with success
\* or reverted; a successful approve(spender, amount) sets the allowance
Mine(i, status) ==
  /\ i \in 1..Len(txs)
  /\ Pending(i)
  /\ \A j \in 1..(i - 1) : ~Pending(j)
  /\ txs' = [txs EXCEPT ![i].status = status]
  /\ allowance' = IF status = "confirmed" /\ txs[i].fn = "approve"
                  THEN [allowance EXCEPT ![<<txs[i].to, txs[i].args[1]>>] = txs[i].args[2]]
                  ELSE allowance
  /\ UNCHANGED <<swapAmount, pool, pc, locals, outstanding, calls, submits, errors, reports,
                 outcome>>

Next ==
  \/ Main
  \/ \E sent \in BOOLEAN : ApproveSend(sent)
  \/ \E rpcOk \in BOOLEAN : ApproveWait(rpcOk)
  \/ ApproveCatch
  \/ \E result \in {Throws, Null, ZeroAddress, PoolAddress} : GetPool(result)
  \/ \E fn \in {"token0", "token1", "fee"} :
       \E result \in ReadResults(poolAddress, fn) : PoolReadSettles(fn, result)
  \/ \E feeResult \in ReadResults(poolAddress, "fee") : PrepareSwapParams(feeResult)
  \/ \E sent \in BOOLEAN : ExecuteSwap(sent)
  \/ \E sent \in BOOLEAN : SupplyApproveSend(sent)
  \/ \E rpcOk \in BOOLEAN : SupplyApproveWait(rpcOk)
  \/ \E sent \in BOOLEAN : SupplyDeposit(sent)
  \/ \E rpcOk \in BOOLEAN : SupplyDepositWait(rpcOk)
  \/ SupplyCatch
  \/ MainCatch
  \/ \E i \in 1..Len(txs) : \E status \in {"confirmed", "reverted"} : Mine(i, status)

Spec == Init /\ [][Next]_vars

\* what every step changes: the position of the call chain, the reads that
\* are outstanding, or the transactions and their status
progress == <<pc, outstanding, txs>>

\* Every continuation runs once the promise it awaits has settled, and every
\* read, submission and confirmation wait settles: the run never stops while
\* a step is possible.
FairSpec == Spec /\ WF_progress(Next)

\* ------------------------------------------------------------------ claims
Terminal == pc \in {"DONE", "FAILED", "REJECTED"}
Unconfirmed == {i \in 1..Len(txs) : Pending(i)}
IsTx(tx, to, fn) == tx.to = to /\ tx.fn = fn
ApproveForSwap(tx) ==
  IsTx(tx, "USDC", "approve") /\ tx.args[1] = "ROUTER"
Swap(tx) == IsTx(tx, "ROUTER", "exactInputSingle")
ApproveForSupply(tx) ==
  IsTx(tx, "LINK", "approve") /\ tx.args[1] = "AAVE"
Deposit(tx) == IsTx(tx, "AAVE", "deposit") /\ tx.args[1] = "LINK"
\* the kind of a transaction or of a submission attempt
KindOf(c) ==
  IF IsTx(c, "USDC", "approve") THEN "approve-for-swap"
  ELSE IF IsTx(c, "ROUTER", "exactInputSingle") THEN "swap"
  ELSE IF IsTx(c, "LINK", "approve") THEN "approve-for-supply"
  ELSE IF IsTx(c, "AAVE", "deposit") THEN "deposit"
  ELSE "other"
Pipeline == <<"approve-for-swap", "swap", "approve-for-supply", "deposit">>
Kinds(seq) == [i \in 1..Len(seq) |-> KindOf(seq[i])]

\* C1: at every point of a run at most one transaction of the signer is
\* unconfirmed, and every transaction but the last submitted is confirmed
\* (so the swap is confirmed before the approve-for-supply is submitted).
C1_OneUnconfirmed ==
  /\ Cardinality(Unconfirmed) <= 1
  /\ \A i \in 1..(Len(txs) - 1) : txs[i].status = "confirmed"

\* C2: a run that ends without a failure has issued exactly these calls, in
\* this order: approve(router) on USDC, the pool resolution (getPool, token0,
\* token1, fee), the fee read of the parameter building, exactInputSingle on
\* the router, approve(lending pool) on LINK, deposit on the lending pool; the
\* four submissions were all accepted and are the run's four transactions.
C2_FourTransactionsInOrder ==
  pc = "DONE" =>
    /\ [i \in 1..Len(calls) |-> <<calls[i].kind, calls[i].to, calls[i].fn>>]
         = << <<"send", "USDC", "approve">>,
              <<"read", "FACTORY", "getPool">>,
              <<"read", "POOL", "token0">>,
              <<"read", "POOL", "token1">>,
              <<"read", "POOL", "fee">>,
              <<"read", "POOL", "fee">>,
              <<"send", "ROUTER", "exactInputSingle">>,
              <<"send", "LINK", "approve">>,
              <<"send", "AAVE", "deposit">> >>
    /\ Len(submits) = 4
    /\ Len(txs) = 4
    /\ ApproveForSwap(txs[1]) /\ Swap(txs[2])
    /\ ApproveForSupply(txs[3]) /\ Deposit(txs[4])

C2_Witness ==
  pc = "DONE" /\ Len(txs) = 4 /\ \A i \in 1..4 : txs[i].status = "confirmed"

\* C3: if the swap transaction is reverted on-chain, the supply step is not
\* invoked: neither the approve-for-supply nor the deposit is submitted.
C3_NoSupplyAfterRevertedSwap ==
  (\E i \in 1..Len(txs) : Swap(txs[i]) /\ txs[i].status = "reverted")
    => \A j \in 1..Len(submits) :
         KindOf(submits[j]) \notin {"approve-for-supply", "deposit"}

\* C4: if getPool resolves to a null or zero address, pool resolution fails
\* with "Failed to get pool address" before any read of the pool is issued,
\* and neither the parameters are built nor the swap submitted.
C4_PoolNotFoundBeforeReads ==
  poolAddress \in {Null, ZeroAddress} =>
    /\ \A i \in 1..Len(calls) : calls[i].to # poolAddress
    /\ failedAt = "resolvePool"
    /\ thrown = "Failed to get pool address"
    /\ params = Unset
    /\ \A j \in 1..Len(submits) : KindOf(submits[j]) # "swap"

\* C5 as stated: when the signer's 3rd submission fails, that submission is
\* the swap, the run ends FAILED and 2 transactions were submitted before it.
C5_ThirdSubmitIsSwap ==
  (Len(submits) >= 3 /\ ~submits[3].ok) =>
    /\ KindOf(submits[3]) = "swap"
    /\ Len(txs) = 2
    /\ pc \in {"supply_catch", "main_catch", "FAILED"}

\* C5 amended: when the signer's 3rd submission fails, that submission is
\* the approve-for-supply, the run is on its way to FAILED and ends there,
\* and exactly 2 transactions, the approve-for-swap and the swap, were
\* submitted before it.
C5_ThirdSubmitIsSupplyApproval ==
  (Len(submits) >= 3 /\ ~submits[3].ok) =>
    /\ KindOf(submits[3]) = "approve-for-supply"
    /\ Len(submits) = 3
    /\ Len(txs) = 2
    /\ Kinds(txs) = <<"approve-for-swap", "swap">>
    /\ pc \in {"supply_catch", "main_catch", "FAILED"}
    /\ failedAt = "approveForSupply"

C5_Witness ==
  Len(submits) = 3 /\ ~submits[3].ok /\ pc = "FAILED" /\ Len(txs) = 2

IsPrefix(a, b) == Len(a) <= Len(b) /\ a = SubSeq(b, 1, Len(a))

\* C6: fail-fast, no retry.  In every state the submission attempts, and the
\* transactions, are a prefix of approve-for-swap, swap, approve-for-supply,
\* deposit (so none is attempted twice); and no step taken once a failure has
\* been raised issues a read or a submission.
C6_FailFastNoRetry ==
  [][/\ IsPrefix(Kinds(submits'), Pipeline)
     /\ IsPrefix(Kinds(txs'), Pipeline)
     /\ failedAt # "none" => calls' = calls /\ submits' = submits /\ Len(txs') = Len(txs)
    ]_vars

C6_Witness ==
  /\ pc = "FAILED"
  /\ failedAt = "approveForSupply"
  /\ Kinds(submits) = <<"approve-for-swap", "swap", "approve-for-supply">>

\* the amount a transaction carries
AmountOf(tx) ==
  IF tx.fn = "exactInputSingle" THEN tx.args[1].amountIn ELSE tx.args[2]

\* C7: every transaction of a run carries the same amount, amountIn (the
\* router's allowance, the swap's amountIn, the lending pool's allowance and
\* the deposit; amountOut is amountIn); for the entered amount 1 it is
\* 1000000.
C7_AmountPropagated ==
  /\ \A i \in 1..Len(txs) : AmountOf(txs[i]) = amountIn[1]
  /\ Len(txs) >= 2 => amountOut = amountIn
  /\ swapAmount = [type |-> "number", value |-> 1] =>
       \A i \in 1..Len(txs) : AmountOf(txs[i]) = 1000000

C7_Witness ==
  /\ swapAmount = [type |-> "number", value |-> 1]
  /\ pc = "DONE"
  /\ [i \in 1..Len(txs) |-> AmountOf(txs[i])] = <<1000000, 1000000, 1000000, 1000000>>

\* the pipeline steps an error message is raised for: approveToken and
\* supplyToAave replace every error by one fixed message; the errors of the
\* other steps reach main as the provider raised them
StepsNamedBy(error) ==
  IF error = "Token approval failed" THEN {"approveForSwap"}
  ELSE IF error = "Aave supply failed" THEN {"approveForSupply", "deposit"}
  ELSE IF error = "Failed to get pool address" THEN {"resolvePool"}
  ELSE {"resolvePool", "buildSwapParams", "swap"}

TrySteps ==
  {"approveForSwap", "resolvePool", "buildSwapParams", "swap", "approveForSupply",
   "deposit"}

\* C8: when a step of the pipeline has failed, the caller of main observes a
\* failure (the promise main returned rejects) and the error it is given
\* names the one step that failed.
C8_FailureSurfacedToCaller ==
  (Terminal /\ failedAt \in TrySteps) =>
    /\ mainPromise = "rejected"
    /\ StepsNamedBy(rejection) = {failedAt}

\* C9: a run in which a step failed ends with exactly one error report.
C9_ReportedOnce ==
  (pc = "FAILED") => Len(reports) = 1

Granted == {k \in Tokens \X Spenders :
              \E i \in 1..Len(txs) :
                /\ txs[i].fn = "approve" /\ txs[i].status = "confirmed"
                /\ k = <<txs[i].to, txs[i].args[1]>>}

\* C10: no rollback.  No step the program takes once a failure has been
\* raised submits a transaction, and every such step leaves every allowance
\* as it was; the transactions of a run are never more than the pipeline's
\* four, so none revokes an approval.
C10_NoRollback ==
  [][(failedAt # "none" /\ pc' # pc) =>
       /\ submits' = submits
       /\ txs' = txs
       /\ \A k \in Granted : allowance'[k] = allowance[k]
    ]_vars

C10_Witness ==
  /\ pc = "FAILED"
  /\ <<"USDC", "ROUTER">> \in Granted
  /\ allowance[<<"USDC", "ROUTER">>] > 0
  /\ Len(txs) >= 2

\* the entered amounts the conversion has to refuse: a negative number, a
\* text with a minus sign before a non-zero digit, a text with a character
\* that is no part of a decimal number
NegativeAmount ==
  IF swapAmount.type = "number" THEN swapAmount.value < 0
  ELSE /\ Len(swapAmount.chars) >= 2
       /\ swapAmount.chars[1] = "-"
       /\ \A i \in 2..Len(swapAmount.chars) : swapAmount.chars[i] \in DigitChars
       /\ \E i \in 2..Len(swapAmount.chars) : swapAmount.chars[i] # "0"
NonNumericAmount ==
  /\ swapAmount.type = "string"
  /\ \E i \in 1..Len(swapAmount.chars) : swapAmount.chars[i] = "e"

\* C11: for a negative or non-numeric amount the run fails at the amount
\* conversion: once main has run its first step the failure is the
\* conversion's, and no call has been built, attempted or submitted.
C11_InvalidAmountAtConversion ==
  ((NegativeAmount \/ NonNumericAmount) /\ pc # "main") =>
    /\ failedAt = "convert"
    /\ pc = "REJECTED"
    /\ calls = <<>> /\ submits = <<>> /\ txs = <<>>

\* the swaps the run has built and handed to the signer, sent or not
SwapCalls == {i \in 1..Len(calls) : calls[i].fn = "exactInputSingle"}

\* C12: whatever the order of token0 and token1 in the resolved pool, the
\* parameters built, and those of every swap handed to the signer, have
\* tokenIn = USDC and tokenOut = LINK.
C12_TokenOrderInsensitive ==
  /\ pc = "swap_send" => params[1].tokenIn = "USDC" /\ params[1].tokenOut = "LINK"
  /\ \A i \in SwapCalls :
       calls[i].args[1].tokenIn = "USDC" /\ calls[i].args[1].tokenOut = "LINK"

C12_Witness ==
  /\ pool.token0 = "LINK"
  /\ poolInfo.token0 = Value("LINK")
  /\ \E i \in 1..Len(txs) : Swap(txs[i]) /\ txs[i].args[1].tokenIn = "USDC"

\* C13: the parameters built, and those of every swap handed to the signer,
\* have amountOutMinimum = 0 and sqrtPriceLimitX96 = 0, for every amount and
\* pool.
C13_NoSlippageProtection ==
  /\ pc = "swap_send" => params[1].amountOutMinimum = 0 /\ params[1].sqrtPriceLimitX96 = 0
  /\ \A i \in SwapCalls :
       calls[i].args[1].amountOutMinimum = 0 /\ calls[i].args[1].sqrtPriceLimitX96 = 0

C13_Witness ==
  \E i \in 1..Len(txs) :
    /\ Swap(txs[i])
    /\ txs[i].args[1].amountIn > 0
    /\ txs[i].args[1].amountOutMinimum = 0
    /\ txs[i].status = "confirmed"

\* the submissions that spend a token of the signer, and what each spends
SpendingCalls == {i \in 1..Len(calls) : calls[i].fn \in {"exactInputSingle", "deposit"}}
TokenSpent(c) == IF c.fn = "exactInputSingle" THEN c.args[1].tokenIn ELSE c.args[1]

\* C14: whenever a swap or a deposit has been handed to the signer, an
\* approve on the token it spends, for the contract it calls, of at least
\* the amount it spends, is already confirmed, and the allowance it granted
\* is on the chain.
C14_ApprovedBeforeSpending ==
  \A i \in SpendingCalls :
    /\ \E j \in 1..Len(txs) :
         /\ txs[j].fn = "approve"
         /\ txs[j].status = "confirmed"
         /\ txs[j].to = TokenSpent(calls[i])
         /\ txs[j].args[1] = calls[i].to
         /\ txs[j].args[2] >= AmountOf(calls[i])
    /\ allowance[<<TokenSpent(calls[i]), calls[i].to>>] >= AmountOf(calls[i])

C14_Witness ==
  /\ \E i \in SpendingCalls : calls[i].fn = "deposit" /\ AmountOf(calls[i]) > 0
  /\ Len(txs) = 4
  /\ allowance[<<"USDC", "ROUTER">>] > 0
  /\ allowance[<<"LINK", "AAVE">>] > 0

\* pool resolution has returned to main: the parameter building is about to
\* start, or has issued its own read of the fee
FeeReads == {i \in 1..Len(calls) : calls[i].fn = "fee"}
PoolResolved == pc = "prepare" \/ Cardinality(FeeReads) >= 2

\* C15: token0, token1 and fee are issued together and may settle in any
\* order; while one of them is outstanding and none has failed the run stays
\* in the resolution; when the resolution returns none is outstanding and the
\* result is what the pool holds, whatever the order they settled in; a read
\* that fails makes the resolution fail, and then no parameters are built and
\* no swap is handed to the signer.
C15_PoolReadsJoined ==
  /\ (pc = "pool_all") =>
       /\ outstanding # {}
       /\ \A fn \in {"token0", "token1", "fee"} \ outstanding :
            poolInfo[fn] = Value(IF fn = "fee" THEN FEE_TIER ELSE pool[fn])
  /\ PoolResolved =>
       /\ outstanding = {}
       /\ poolInfo.token0 = Value(pool.token0)
       /\ poolInfo.token1 = Value(pool.token1)
       /\ poolInfo.fee = Value(FEE_TIER)
  /\ outstanding # {} => pc \in {"pool_all", "main_catch", "FAILED"}
  /\ failedAt = "resolvePool" =>
       /\ pc \in {"main_catch", "FAILED"}
       /\ Cardinality(FeeReads) <= 1
       /\ SwapCalls = {}

\* fee has settled before token0, the first read issued
C15_Witness ==
  /\ pc = "pool_all"
  /\ outstanding = {"token0"}
  /\ poolInfo.fee = Value(FEE_TIER)
  /\ poolInfo.token1 = Value(pool.token1)

\* the place of each position in the pipeline's order
Rank(p) ==
  CASE p = "main" -> 0
    [] p = "approve_send" -> 1
    [] p = "approve_wait" -> 2
    [] p = "approve_catch" -> 3
    [] p = "getPool" -> 4
    [] p = "pool_all" -> 5
    [] p = "prepare" -> 6
    [] p = "swap_send" -> 7
    [] p = "supply_approve_send" -> 8
    [] p = "supply_approve_wait" -> 9
    [] p = "supply_deposit" -> 10
    [] p = "supply_deposit_wait" -> 11
    [] p = "supply_catch" -> 12
    [] p = "main_catch" -> 13
    [] p = "DONE" -> 14
    [] p = "FAILED" -> 14
    [] p = "REJECTED" -> 14

\* C16: when every call settles, every run ends: it reaches DONE, or a
\* failed end (FAILED, or REJECTED when the conversion threw); and every
\* step moves forward in the pipeline's order, so no step is visited twice
\* and nothing is taken after the end.
C16_TerminatesLinearly ==
  /\ <>(pc \in {"DONE", "FAILED", "REJECTED"})
  /\ [][Rank(pc') > Rank(pc)]_pc

C16_Witness ==
  /\ pc = "DONE"
  /\ Len(calls) = 9
  /\ \A i \in 1..Len(txs) : txs[i].status = "confirmed"

\* C17 as stated: every failure raised during a run of main, the failure of
\* the initial conversion included, is caught and logged by main, and the
\* promise main returned never rejects.
C17_NeverRejects ==
  /\ mainPromise # "rejected"
  /\ (Terminal /\ failedAt # "none") =>
       \E i \in 1..Len(reports) : reports[i].by = "main"

\* C17: a failure raised inside main's try block is caught by main, logged
\* last by main with its message, and the promise main returned fulfils; the
\* promise rejects exactly when the conversion of the entered amount, which
\* runs before the try block, throws, and then nothing is logged and the
\* conversion's error is the rejection.
C17_CaughtInsideTry ==
  /\ (Terminal /\ failedAt \in TrySteps) =>
       /\ pc = "FAILED"
       /\ mainPromise = "fulfilled"
       /\ reports # <<>>
       /\ reports[Len(reports)] = [by |-> "main", error |-> thrown]
  /\ mainPromise = "rejected" <=> failedAt = "convert"
  /\ failedAt = "convert" =>
       /\ pc = "REJECTED"
       /\ reports = <<>>
       /\ rejection = thrown

C17_Witness ==
  /\ pc = "FAILED"
  /\ failedAt = "deposit"
  /\ mainPromise = "fulfilled"
  /\ reports[Len(reports)].by = "main"

\* a decimal text modulo surplus zeros: the whole part without leading zeros
\* and the fraction without trailing zeros ("1", "1.0" and "01." are equal)
RECURSIVE StripLeadingZeros(_)
StripLeadingZeros(s) ==
  IF Len(s) >= 1 /\ s[1] = "0" THEN StripLeadingZeros(Tail(s)) ELSE s
RECURSIVE StripTrailingZeros(_)
StripTrailingZeros(s) ==
  IF Len(s) >= 1 /\ s[Len(s)] = "0"
  THEN StripTrailingZeros(SubSeq(s, 1, Len(s) - 1))
  ELSE s
Canonical(s) ==
  LET dots == {i \in 1..Len(s) : s[i] = "."}
      dot == IF dots = {} THEN Len(s) + 1
             ELSE CHOOSE i \in dots : \A j \in dots : i <= j
  IN <<StripLeadingZeros(SubSeq(s, 1, dot - 1)),
       StripTrailingZeros(SubSeq(s, dot + 1, Len(s)))>>

Precisions == 0..USDC.decimals
Entered == toString(swapAmount)

\* the codec alone: an unsigned amount that converts at precision p is given
\* back by formatUnits at the same precision, modulo surplus zeros
RoundTrip ==
  \A p \in Precisions :
    LET r == parseUnits(Entered, p)
    IN (r.ok /\ r.value >= 0 /\ Entered[1] # "-") =>
         Canonical(formatUnits(r.value, p)) = Canonical(Entered)

\* C18: the conversion of the entered amount and the formatting of the
\* supplied amount for display are a round trip, so after a successful run
\* the amount logged as supplied is the entered amount, modulo surplus zeros.
C18_SuppliedEqualsEntered ==
  /\ RoundTrip
  /\ pc = "DONE" => Canonical(suppliedLog[1]) = Canonical(Entered)

\* C19: every transaction of a run is sent by the one signer, at most four of
\* them; every swap handed to the signer names the signer as recipient, and
\* every deposit names the signer as onBehalfOf with referralCode 0.
C19_FundsStayWithCaller ==
  /\ Len(txs) <= 4
  /\ \A i \in 1..Len(txs) : txs[i].from = "SIGNER"
  /\ \A i \in 1..Len(calls) :
       /\ calls[i].fn = "exactInputSingle" => calls[i].args[1].recipient = "SIGNER"
       /\ calls[i].fn = "deposit" =>
            /\ calls[i].args[3] = "SIGNER"
            /\ calls[i].args[4] = 0

C19_Witness ==
  /\ Len(txs) = 4
  /\ \E i, j \in 1..Len(txs) :
       /\ Swap(txs[i]) /\ txs[i].args[1].recipient = txs[i].from
       /\ Deposit(txs[j]) /\ txs[j].args[3] = txs[j].from
       /\ txs[j].status = "confirmed"

====
